---------------------------- MODULE Spec2Model ----------------------------
(***************************************************************************)
(* Line clipping and rasterization of ascii_renderer (src/line.rs) on a    *)
(* CharBuffer.                                                             *)
(*                                                                         *)
(* Numbers.  TLC's integers are 32-bit, the program's are f32 and usize.   *)
(* Every number of the model is an exact dyadic value n * 2^x held as the  *)
(* record [cls |-> "fin", n |-> n, x |-> x] (n odd, or n = 0 and x = 0),   *)
(* so that 4_000_000_000 = 1953125 * 2^11 is representable.  An f32 is     *)
(* such a value with |n| < 2^24, or one of nan, +inf, -inf; every f32      *)
(* operation computes the exact result and rounds it to 24 significant     *)
(* bits, ties to even, as IEEE-754 binary32 does.  The inputs are bounded, *)
(* so no result leaves the normal exponent range; -0.0 is identified with  *)
(* 0.0 (the code never divides by a computed zero other than x - x = +0.0, *)
(* and compares, rounds and casts a zero of either sign alike).            *)
(***************************************************************************)
EXTENDS Integers, Sequences, FiniteSets

\* buf    the CharBuffer: [width, height, cells, panic]; cells maps <<x, y>> to
\*        a character; panic is a ghost flag, TRUE once a checked usize
\*        subtraction of the rasterizer has underflowed
\* pc     the position of the client: "new", "filled", then the last call made
\* line, lines, char, coords   the arguments of the last call and the grid
\*        coordinates it converted its Line to (or was handed)
\* before the buffer the last call started from
VARIABLES buf, pc, line, lines, char, coords, before

vars == <<buf, pc, line, lines, char, coords, before>>

-----------------------------------------------------------------------------
(* Exact dyadic numbers *)

Abs(i) == IF i < 0 THEN -i ELSE i

Sgn(i) == IF i < 0 THEN -1 ELSE IF i = 0 THEN 0 ELSE 1

\* Number of bits of the natural number m (below 2^31), by halving the range.
BitLen4(m) == IF m < 4 THEN (IF m < 2 THEN m ELSE 2) ELSE (IF m < 8 THEN 3 ELSE 4)

BitLen8(m) == IF m < 16 THEN BitLen4(m) ELSE 4 + BitLen4(m \div 16)

BitLen16(m) == IF m < 256 THEN BitLen8(m) ELSE 8 + BitLen8(m \div 256)

BitLen(m) == IF m < 65536 THEN BitLen16(m) ELSE 16 + BitLen16(m \div 65536)

\* The value n * 2^x with the factors of two moved out of n.
Fin(n, x) ==
    IF n = 0 THEN [cls |-> "fin", n |-> 0, x |-> 0]
    ELSE IF n % 2 = 1 THEN [cls |-> "fin", n |-> n, x |-> x]
    ELSE LET t == Cardinality({k \in 1 .. 30 : n % 2^k = 0})
         IN  [cls |-> "fin", n |-> n \div 2^t, x |-> x + t]

NaN == [cls |-> "nan", n |-> 0, x |-> 0]

Inf(s) == [cls |-> "inf", n |-> s, x |-> 0]

IsFin(a) == a.cls = "fin"

Neg(a) == [a EXCEPT !.n = -a.n]

\* Position of the leading bit of a finite non-zero value.
Top(a) == BitLen(Abs(a.n)) + a.x

\* -1, 0 or 1 as the finite value a is below, equal to or above the finite b.
Cmp(a, b) ==
    IF Sgn(a.n) # Sgn(b.n) THEN (IF Sgn(a.n) < Sgn(b.n) THEN -1 ELSE 1)
    ELSE IF a.n = 0 THEN 0
    ELSE IF Top(a) # Top(b) THEN (IF Top(a) < Top(b) THEN -Sgn(a.n) ELSE Sgn(a.n))
    ELSE LET x == IF a.x < b.x THEN a.x ELSE b.x
         IN  Sgn(a.n * 2^(a.x - x) - b.n * 2^(b.x - x))

\* The exact sum of two finite values, as the pair (integer, exponent).
ExactSum(a, b) ==
    IF b.n = 0 THEN <<a.n, a.x>>
    ELSE IF a.n = 0 THEN <<b.n, b.x>>
    ELSE LET x == IF a.x < b.x THEN a.x ELSE b.x
         IN  <<a.n * 2^(a.x - x) + b.n * 2^(b.x - x), x>>

-----------------------------------------------------------------------------
(* IEEE-754 binary32 arithmetic, round to nearest, ties to even *)

\* The f32 nearest to n * 2^x (plus a non-zero tail below the last bit of n
\* when sticky): keep 24 significant bits.
RoundToF32(n, x, sticky) ==
    LET m == Abs(n)
        s == BitLen(m) - 24
    IN  IF s <= 0 THEN Fin(n, x)
        ELSE LET q    == m \div 2^s
                 r    == m % 2^s
                 half == 2^(s - 1)
                 up   == r > half \/ (r = half /\ (sticky \/ q % 2 = 1))
             IN  Fin(Sgn(n) * (IF up THEN q + 1 ELSE q), x + s)

F32Add(a, b) ==
    IF a.cls = "nan" \/ b.cls = "nan" THEN NaN
    ELSE IF a.cls = "inf" /\ b.cls = "inf" THEN (IF a.n = b.n THEN a ELSE NaN)
    ELSE IF a.cls = "inf" THEN a
    ELSE IF b.cls = "inf" THEN b
    ELSE LET e == ExactSum(a, b) IN RoundToF32(e[1], e[2], FALSE)

F32Sub(a, b) == F32Add(a, Neg(b))

F32Mul(a, b) ==
    IF a.cls = "nan" \/ b.cls = "nan" THEN NaN
    ELSE IF a.cls = "inf" \/ b.cls = "inf"
         THEN (IF a.n = 0 \/ b.n = 0 THEN NaN ELSE Inf(Sgn(a.n) * Sgn(b.n)))
    ELSE RoundToF32(a.n * b.n, a.x + b.x, FALSE)

\* Long division of r * 2^k by d (r < d < 2^24), six quotient bits per step,
\* until the quotient q has at least 26 bits or the division is exact:
\* <<quotient, bits, rest>>.
RECURSIVE LongDiv(_, _, _, _)
LongDiv(q, r, d, k) ==
    IF r = 0 \/ q >= 2^25 THEN <<q, k, r>>
    ELSE LongDiv(64 * q + (64 * r) \div d, (64 * r) % d, d, k + 6)

F32Div(a, b) ==
    IF a.cls = "nan" \/ b.cls = "nan" THEN NaN
    ELSE IF a.cls = "inf" THEN (IF b.cls = "inf" THEN NaN
                                ELSE Inf(a.n * (IF b.n < 0 THEN -1 ELSE 1)))
    ELSE IF b.cls = "inf" THEN Fin(0, 0)
    ELSE IF b.n = 0 THEN (IF a.n = 0 THEN NaN ELSE Inf(Sgn(a.n)))
    ELSE LET d == Abs(b.n)
             l == LongDiv(Abs(a.n) \div d, Abs(a.n) % d, d, 0)
         IN  RoundToF32(Sgn(a.n) * Sgn(b.n) * l[1], a.x - b.x - l[2], l[3] # 0)

\* a < b and a == b on f32: false whenever an operand is nan.
F32Lt(a, b) ==
    IF a.cls = "nan" \/ b.cls = "nan" THEN FALSE
    ELSE IF a.cls = "inf" THEN a.n < 0 /\ a # b
    ELSE IF b.cls = "inf" THEN b.n > 0
    ELSE Cmp(a, b) < 0

F32Eq(a, b) == a.cls # "nan" /\ b.cls # "nan" /\ a = b

\* f32::round: the nearest integer, ties away from zero.
F32Round(a) ==
    IF ~IsFin(a) \/ a.x >= 0 THEN a
    ELSE LET m == Abs(a.n)
             p == 2^(-a.x)
             q == m \div p
         IN  Fin(Sgn(a.n) * (IF 2 * (m % p) >= p THEN q + 1 ELSE q), 0)

\* `as usize` of an f32: truncation toward zero, saturating; nan gives 0.
\* (+inf would saturate to usize::MAX, which no bounded input produces.)
F32AsUsize(a) ==
    IF a.cls = "nan" THEN Fin(0, 0)
    ELSE IF a.cls = "inf" THEN (IF a.n < 0 THEN Fin(0, 0) ELSE Inf(1))
    ELSE IF a.n <= 0 THEN Fin(0, 0)
    ELSE IF a.x >= 0 THEN a
    ELSE Fin(a.n \div 2^(-a.x), 0)

\* `as f32` of a usize.
UsizeAsF32(u) == RoundToF32(u.n, u.x, FALSE)


-----------------------------------------------------------------------------
(* Bounds of the inputs *)

\* The Lines converted have x = i/2 with -NegHalvesX <= i <= PosHalvesX and
\* y = j/2 with -NegHalvesY <= j <= PosHalvesY.
NegHalvesX == 11

PosHalvesX == 7

NegHalvesY == 4

PosHalvesY == 9

\* Lines drawn on the buffer have coordinates k/2 with
\* -DrawNegHalves <= k <= DrawPosHalves.
DrawNegHalves == 2

DrawPosHalves == 6

\* The buffer is GridWidth columns by GridHeight rows.
GridWidth == 3

GridHeight == 2

\* draw_lines is called with at most MaxLines lines.
MaxLines == 2

\* The rasterizer is called directly on a buffer of RasterWidth columns by
\* RasterHeight rows, from a point of (0..RasterNear) x (0..RasterNear) to a
\* point of (0..RasterWidth) x (0..RasterHeight).
RasterWidth == 23

RasterHeight == 14

RasterNear == 1

Chars == {"a", "b"}

Blank == "."

CoordX == { Fin(i, -1) : i \in (-NegHalvesX) .. PosHalvesX }

CoordY == { Fin(j, -1) : j \in (-NegHalvesY) .. PosHalvesY }

Vector2 == [x : CoordX, y : CoordY]

\* The Lines converted (the conversion does not read the character).
Line == [char : {"a"}, points : Vector2 \X Vector2]

Zero == Fin(0, 0)

U(k) == Fin(k, 0)

-----------------------------------------------------------------------------
(* impl Into<((usize, usize), (usize, usize))> for Line *)

\* Mutant: the cast alone, which truncates.
f32_to_usize_Truncating(value) == F32AsUsize(value)

f32_to_usize(value) == F32AsUsize(F32Round(value))

\* Mutant: a marker inside the buffer.
SENTINEL_InGrid == Fin(1, 0)

SENTINEL == Fin(1953125, 11)    \* 4_000_000_000

first(self) ==
    IF F32Lt(self.points[1].x, self.points[2].x)
    THEN self.points[1] ELSE self.points[2]

second(self) ==
    IF F32Lt(self.points[1].x, self.points[2].x)
    THEN self.points[2] ELSE self.points[1]

slope(self) ==
    F32Div(F32Sub(second(self).y, first(self).y),
           F32Sub(second(self).x, first(self).x))

equation_for_y(self, x) ==
    F32Add(F32Mul(slope(self), F32Sub(x, first(self).x)), first(self).y)

equation_for_x(self, y) ==
    F32Add(F32Div(F32Sub(y, first(self).y), slope(self)), first(self).x)

\* Mutant: the reject test placed after the axis-aligned case never sees an
\* axis-aligned Line.
TriviallyRejected_NotAxisAligned(self) ==
    /\ ~(\/ F32Eq(self.points[1].x, self.points[2].x)
         \/ F32Eq(self.points[1].y, self.points[2].y))
    /\ \/ F32Lt(self.points[1].x, Zero) /\ F32Lt(self.points[2].x, Zero)
       \/ F32Lt(self.points[1].y, Zero) /\ F32Lt(self.points[2].y, Zero)

TriviallyRejected(self) ==
    \/ F32Lt(self.points[1].x, Zero) /\ F32Lt(self.points[2].x, Zero)
    \/ F32Lt(self.points[1].y, Zero) /\ F32Lt(self.points[2].y, Zero)

AxisAligned(self) ==
    \/ F32Eq(self.points[1].x, self.points[2].x)
    \/ F32Eq(self.points[1].y, self.points[2].y)

Into(self) ==
    IF TriviallyRejected(self)
    THEN <<<<SENTINEL, SENTINEL>>, <<SENTINEL, SENTINEL>>>>
    ELSE IF AxisAligned(self)
    THEN <<<<f32_to_usize(self.points[1].x), f32_to_usize(self.points[1].y)>>,
           <<f32_to_usize(self.points[2].x), f32_to_usize(self.points[2].y)>>>>
    ELSE IF F32Lt(first(self).x, Zero)
    THEN IF F32Lt(equation_for_y(self, Zero), Zero)
         THEN <<<<f32_to_usize(equation_for_x(self, Zero)), U(0)>>,
                <<f32_to_usize(second(self).x), f32_to_usize(second(self).y)>>>>
         ELSE <<<<f32_to_usize(Zero), f32_to_usize(equation_for_y(self, Zero))>>,
                <<f32_to_usize(second(self).x), f32_to_usize(second(self).y)>>>>
    ELSE IF F32Lt(first(self).y, Zero)
    THEN IF F32Lt(equation_for_x(self, Zero), Zero)
         THEN <<<<U(0), f32_to_usize(equation_for_y(self, Zero))>>,
                <<f32_to_usize(second(self).x), f32_to_usize(second(self).y)>>>>
         ELSE <<<<f32_to_usize(equation_for_x(self, Zero)), f32_to_usize(Zero)>>,
                <<f32_to_usize(second(self).x), f32_to_usize(second(self).y)>>>>
    ELSE IF F32Lt(second(self).y, Zero)
    THEN <<<<f32_to_usize(first(self).x), f32_to_usize(first(self).y)>>,
           <<f32_to_usize(equation_for_x(self, Zero)), U(0)>>>>
    ELSE <<<<f32_to_usize(self.points[1].x), f32_to_usize(self.points[1].y)>>,
           <<f32_to_usize(self.points[2].x), f32_to_usize(self.points[2].y)>>>>


-----------------------------------------------------------------------------
(* CharBuffer (char_buffer.rs) *)

Cells(w, h) == (0 .. w - 1) \X (0 .. h - 1)

CharBuffer_new(w, h) ==
    [width |-> w, height |-> h, cells |-> [c \in Cells(w, h) |-> Blank],
     panic |-> FALSE]

fill(b, c) == [b EXCEPT !.cells = [k \in DOMAIN b.cells |-> c]]

ToNat(u) == u.n * 2^u.x

\* x >= width or y >= height is the bounds error, which leaves the buffer as
\* it is; the rasterizer drops the Result.
InBounds(b, x, y) ==
    /\ IsFin(x) /\ IsFin(y)
    /\ Cmp(x, U(b.width)) < 0
    /\ Cmp(y, U(b.height)) < 0

set_char(b, x, y, c) ==
    IF InBounds(b, x, y)
    THEN [b EXCEPT !.cells[<<ToNat(x), ToNat(y)>>] = c]
    ELSE b

-----------------------------------------------------------------------------
(* usize arithmetic of the rasterizer *)

UPlus(u, i) == LET e == ExactSum(u, U(i)) IN Fin(e[1], e[2])

\* a - b on usize; an underflow panics (overflow checks) -- reported as "under".
USub(a, b) ==
    IF Cmp(a, b) < 0 THEN [cls |-> "under", n |-> 0, x |-> 0]
    ELSE LET e == ExactSum(a, Neg(b)) IN Fin(e[1], e[2])

\* The number of values of the range a..=b.
RangeLen(a, b) == IF Cmp(a, b) > 0 THEN 0 ELSE ToNat(USub(b, a)) + 1

-----------------------------------------------------------------------------
(* The rasterizer: draw_line, draw_vertical, draw_horizontal *)

draw_vertical(c, b, start_coords, end_coords, is_up) ==
    LET inv_slope ==
            F32Div(F32Sub(UsizeAsF32(end_coords[1]), UsizeAsF32(start_coords[1])),
                   F32Sub(UsizeAsF32(end_coords[2]), UsizeAsF32(start_coords[2])))
        anchor == IF is_up THEN start_coords ELSE end_coords
        last   == IF is_up THEN end_coords ELSE start_coords
        equation(d) ==
            F32AsUsize(F32Add(F32Mul(inv_slope, UsizeAsF32(d)), UsizeAsF32(anchor[1])))
        RECURSIVE loop(_, _)
        loop(bb, i) ==
            IF bb.panic \/ i >= RangeLen(anchor[2], last[2]) THEN bb
            ELSE LET y == UPlus(anchor[2], i)
                     d == USub(y, anchor[2])
                 IN  IF d.cls = "under" THEN [bb EXCEPT !.panic = TRUE]
                     ELSE loop(set_char(bb, equation(d), y, c), i + 1)
    IN  loop(b, 0)

draw_horizontal(c, b, start_coords, end_coords) ==
    LET slope_h ==
            F32Div(F32Sub(UsizeAsF32(end_coords[2]), UsizeAsF32(start_coords[2])),
                   F32Sub(UsizeAsF32(end_coords[1]), UsizeAsF32(start_coords[1])))
        equation(d) ==
            F32AsUsize(F32Add(F32Mul(slope_h, UsizeAsF32(d)), UsizeAsF32(start_coords[2])))
        RECURSIVE loop(_, _)
        loop(bb, i) ==
            IF bb.panic \/ i >= RangeLen(start_coords[1], end_coords[1]) THEN bb
            ELSE LET x == UPlus(start_coords[1], i)
                     d == USub(x, start_coords[1])
                 IN  IF d.cls = "under" THEN [bb EXCEPT !.panic = TRUE]
                     ELSE loop(set_char(bb, x, equation(d), c), i + 1)
    IN  loop(b, 0)

draw_line(c, b, start_in, end_in) ==
    LET swap         == Cmp(start_in[1], end_in[1]) > 0
        start_coords == IF swap THEN end_in ELSE start_in
        end_coords   == IF swap THEN start_in ELSE end_in
        slope_r ==
            F32Div(F32Sub(UsizeAsF32(end_coords[2]), UsizeAsF32(start_coords[2])),
                   F32Sub(UsizeAsF32(end_coords[1]), UsizeAsF32(start_coords[1])))
    IN  IF F32Lt(slope_r, U(-1))
        THEN draw_vertical(c, b, start_coords, end_coords, FALSE)
        ELSE IF F32Lt(U(1), slope_r)
        THEN draw_vertical(c, b, start_coords, end_coords, TRUE)
        ELSE draw_horizontal(c, b, start_coords, end_coords)

-----------------------------------------------------------------------------
(* impl CharBuffer: draw_line, draw_lines *)

\* Mutant: the rasterizer handed the first converted point twice.
CharBuffer_draw_line_FirstTwice(b, l) ==
    LET cs == Into(l) IN draw_line(l.char, b, cs[1], cs[1])

CharBuffer_draw_line(b, l) ==
    LET cs == Into(l) IN draw_line(l.char, b, cs[1], cs[2])

\* Mutant: the lines drawn last to first.
RECURSIVE CharBuffer_draw_lines_Reversed(_, _)
CharBuffer_draw_lines_Reversed(b, ls) ==
    IF ls = <<>> THEN b
    ELSE CharBuffer_draw_line(CharBuffer_draw_lines_Reversed(b, Tail(ls)), Head(ls))

RECURSIVE CharBuffer_draw_lines(_, _)
CharBuffer_draw_lines(b, ls) ==
    IF ls = <<>> THEN b
    ELSE CharBuffer_draw_lines(CharBuffer_draw_line(b, Head(ls)), Tail(ls))

-----------------------------------------------------------------------------
(* The client: a new buffer, optionally filled, then one call *)

NoLine == [char |-> Blank, points |-> <<[x |-> Zero, y |-> Zero], [x |-> Zero, y |-> Zero]>>]

NoCoords == <<<<Zero, Zero>>, <<Zero, Zero>>>>

\* The Lines drawn on the buffer.
DrawCoord == { Fin(k, -1) : k \in (-DrawNegHalves) .. DrawPosHalves }

DrawVector2 == [x : DrawCoord, y : DrawCoord]

DrawnLine == [char : {"a"}, points : DrawVector2 \X DrawVector2]

\* The Lines handed to draw_lines: endpoints among (-1,1), (2,0), (2,1).
ListedPoint ==
    {[x |-> U(-1), y |-> U(1)], [x |-> U(2), y |-> U(0)], [x |-> U(2), y |-> U(1)]}

ListedLine == [char : Chars, points : ListedPoint \X ListedPoint]

RECURSIVE SeqsUpTo(_, _)
SeqsUpTo(S, n) ==
    IF n = 0 THEN {<<>>}
    ELSE LET shorter == SeqsUpTo(S, n - 1)
         IN  shorter \cup { Append(q, e) : q \in shorter, e \in S }

NearPoint == { <<U(i), U(j)>> : i \in 0 .. RasterNear, j \in 0 .. RasterNear }

GridPoint == { <<U(i), U(j)>> : i \in 0 .. RasterWidth, j \in 0 .. RasterHeight }

Init ==
    /\ buf = CharBuffer_new(GridWidth, GridHeight)
    /\ pc = "new"
    /\ line = NoLine
    /\ lines = <<>>
    /\ char = Blank
    /\ coords = NoCoords
    /\ before = buf

\* The client makes one call on the buffer it has set up.
Ready == pc \in {"new", "filled"}

Fill(c) ==
    /\ pc = "new"
    /\ buf' = fill(buf, c)
    /\ pc' = "filled"
    /\ before' = buf
    /\ UNCHANGED <<line, lines, char, coords>>

Convert(l) ==
    /\ pc = "new"
    /\ line' = l
    /\ coords' = Into(l)
    /\ pc' = "into"
    /\ UNCHANGED <<buf, lines, char, before>>

DrawLine(l) ==
    /\ Ready
    /\ line' = l
    /\ char' = l.char
    /\ coords' = Into(l)
    /\ before' = buf
    /\ buf' = CharBuffer_draw_line(buf, l)
    /\ pc' = "draw_line"
    /\ UNCHANGED lines

DrawLines(ls) ==
    /\ Ready
    /\ lines' = ls
    /\ before' = buf
    /\ buf' = CharBuffer_draw_lines(buf, ls)
    /\ pc' = "draw_lines"
    /\ UNCHANGED <<line, char, coords>>

Rasterize(c, s, e) ==
    /\ Ready
    /\ char' = c
    /\ coords' = <<s, e>>
    /\ before' = buf
    /\ buf' = draw_line(c, buf, s, e)
    /\ pc' = "raster"
    /\ UNCHANGED <<line, lines>>

Next ==
    \/ \E c \in {"b"} : Fill(c)
    \/ Ready /\ \E l \in DrawnLine : DrawLine(l)
    \/ Ready /\ \E ls \in SeqsUpTo(ListedLine, MaxLines) : DrawLines(ls)

Spec == Init /\ [][Next]_vars

NextClip == pc = "new" /\ \E l \in Line : Convert(l)

SpecClip == Init /\ [][NextClip]_vars

InitRaster ==
    /\ buf = CharBuffer_new(RasterWidth, RasterHeight)
    /\ pc = "new"
    /\ line = NoLine
    /\ lines = <<>>
    /\ char = Blank
    /\ coords = NoCoords
    /\ before = buf

NextRaster ==
    \/ \E c \in {"b"} : Fill(c)
    \/ Ready /\ \E s \in NearPoint, e \in GridPoint : Rasterize("a", s, e)
    \/ Ready /\ \E s \in GridPoint, e \in NearPoint : Rasterize("a", s, e)

SpecRaster == InitRaster /\ [][NextRaster]_vars

-----------------------------------------------------------------------------
(* Exact (rational) reference values, computed on integers *)

\* The integer the exact real value n * 2^x rounds to, ties away from zero.
RoundHalfAway(c) ==
    IF c.x >= 0 THEN c.n * 2^c.x
    ELSE Sgn(c.n) * ((2 * Abs(c.n) + 2^(-c.x)) \div 2^(1 - c.x))

\* The grid coordinate a real coordinate stands for: the nearest integer,
\* a negative one becoming 0.
Nearest(c) == IF RoundHalfAway(c) < 0 THEN U(0) ELSE U(RoundHalfAway(c))

NearestPoint(p) == <<Nearest(p.x), Nearest(p.y)>>

\* The rational p / q (q > 0) rounded to the nearest integer, ties away from
\* zero, a negative one becoming 0.
NearestRat(p, q) == IF p <= 0 THEN U(0) ELSE U((2 * p + q) \div (2 * q))

\* A coordinate in units of 1/4 (every input coordinate is a multiple of 1/2).
Q4(c) == c.n * 2^(c.x + 2)

P0 == line.points[1]

P1 == line.points[2]

BothNegX == P0.x.n < 0 /\ P1.x.n < 0

BothNegY == P0.y.n < 0 /\ P1.y.n < 0

SameX == P0.x = P1.x

SameY == P0.y = P1.y

\* The endpoint of smaller x and the other one (the lines they are used for
\* have distinct x).
Lo == IF Q4(P0.x) < Q4(P1.x) THEN P0 ELSE P1

Hi == IF Q4(P0.x) < Q4(P1.x) THEN P1 ELSE P0

DX == Q4(Hi.x) - Q4(Lo.x)

DY == Q4(Hi.y) - Q4(Lo.y)

\* y(0) = YAtZeroNum / (4 * DX): the line's value at x = 0.
YAtZeroNum == Q4(Lo.y) * DX - Q4(Lo.x) * DY

\* x(0) = XAtZeroNum / (4 * DY): the x at which the line reaches y = 0.
XAtZeroNum == Q4(Lo.x) * DY - Q4(Lo.y) * DX

SentinelPair == <<<<SENTINEL, SENTINEL>>, <<SENTINEL, SENTINEL>>>>

-----------------------------------------------------------------------------
(* Claims *)

\* C1: a Line whose endpoints both have x < 0, or both have y < 0, converts
\* to the sentinel pair ((4000000000, 4000000000), (4000000000, 4000000000)),
\* whatever else holds of it (axis-aligned or not).
C1_TrivialReject ==
    (pc = "into" /\ (BothNegX \/ BothNegY))
        => coords = <<<<Fin(1953125, 11), Fin(1953125, 11)>>,
                      <<Fin(1953125, 11), Fin(1953125, 11)>>>>

\* An axis-aligned Line (1,-2)-(1,-1), both above the screen, was converted
\* to the sentinel pair.
C1_Witness ==
    /\ pc = "into"
    /\ P0 = [x |-> U(1), y |-> U(-2)] /\ P1 = [x |-> U(1), y |-> U(-1)]
    /\ coords = SentinelPair

\* C2: for a Line with both endpoints inside [0,width) x [0,height) the
\* conversion returns the endpoints in input order, each coordinate rounded to
\* the nearest integer, and draw_line leaves the buffer as rasterizing the
\* rounded endpoints directly does.
InGrid(p) ==
    /\ p.x.n >= 0 /\ Cmp(p.x, U(before.width)) < 0
    /\ p.y.n >= 0 /\ Cmp(p.y, U(before.height)) < 0

C2_InBoundsNoClip ==
    (pc = "draw_line" /\ InGrid(P0) /\ InGrid(P1))
        => /\ coords = <<NearestPoint(P0), NearestPoint(P1)>>
           /\ buf = draw_line(line.char, before, NearestPoint(P0), NearestPoint(P1))

\* The in-grid Line (2.5,0.5)-(0,1.5), given right to left, was drawn from
\* (3,1) to (0,2) on a blank buffer, marking (1,1) and (2,1).
C2_Witness ==
    /\ pc = "draw_line"
    /\ P0 = [x |-> Fin(5, -1), y |-> Fin(1, -1)]
    /\ P1 = [x |-> U(0), y |-> Fin(3, -1)]
    /\ coords = <<<<U(3), U(1)>>, <<U(0), U(2)>>>>
    /\ before = CharBuffer_new(GridWidth, GridHeight)
    /\ {k \in DOMAIN buf.cells : buf.cells[k] = "a"} = {<<1, 1>>, <<2, 1>>}

\* C3: for a Line that is not axis-aligned and not trivially rejected, whose
\* smaller-x endpoint has x < 0 and whose value y(0) at x = 0 is >= 0, the
\* conversion returns ((0, round(y(0))), (round(second.x), round(second.y))),
\* a negative coordinate of the second endpoint becoming 0.
C3_LeftClip ==
    (/\ pc = "into"
     /\ ~SameX /\ ~SameY /\ ~BothNegX /\ ~BothNegY
     /\ Lo.x.n < 0
     /\ YAtZeroNum >= 0)
        => coords = <<<<U(0), NearestRat(YAtZeroNum, 4 * DX)>>, NearestPoint(Hi)>>

\* C4: for a Line that is not axis-aligned, whose smaller-x endpoint has
\* x >= 0 and exactly one of whose endpoints has y < 0, the conversion replaces
\* the negative-y endpoint by (round(x(0)), 0), x(0) the x at which the line
\* reaches y = 0, rounds the other endpoint, and returns the pair by ascending x.
XAtZero ==
    IF DY > 0 THEN NearestRat(XAtZeroNum, 4 * DY)
    ELSE NearestRat(-XAtZeroNum, -4 * DY)

C4_XAxisCrossing ==
    (/\ pc = "into"
     /\ ~SameX /\ ~SameY
     /\ Lo.x.n >= 0
     /\ (Lo.y.n < 0) # (Hi.y.n < 0))
        => coords = IF Lo.y.n < 0
                    THEN <<<<XAtZero, U(0)>>, NearestPoint(Hi)>>
                    ELSE <<NearestPoint(Lo), <<XAtZero, U(0)>>>>

\* C5: an axis-aligned Line that is not trivially rejected converts to its
\* endpoints in input order, each of the four coordinates rounded to the
\* nearest integer on its own (ties away from zero), a negative one becoming 0.
C5_AxisAligned ==
    (pc = "into" /\ (SameX \/ SameY) /\ ~BothNegX /\ ~BothNegY)
        => coords = <<NearestPoint(P0), NearestPoint(P1)>>

\* The horizontal Line (-1,2.5)-(3,2.5) was converted to ((0,3),(3,3)).
C5_Witness ==
    /\ pc = "into"
    /\ P0 = [x |-> U(-1), y |-> Fin(5, -1)] /\ P1 = [x |-> U(3), y |-> Fin(5, -1)]
    /\ coords = <<<<U(0), U(3)>>, <<U(3), U(3)>>>>

\* C6: draw_lines(l1..ln) leaves every cell holding the character of the last
\* Line of the sequence that wrote it, and a cell no Line wrote as it was:
\* the state draw_line(l1); ...; draw_line(ln) leaves.
\* The cells draw_line(l) writes: those it changes on a blank buffer.
Written(l) ==
    LET probe == CharBuffer_new(before.width, before.height)
        drawn == CharBuffer_draw_line(probe, l)
    IN  {k \in DOMAIN probe.cells : drawn.cells[k] # Blank}

\* The pairs (i, cells the i-th Line writes).
Marks == {<<i, Written(lines[i])>> : i \in 1 .. Len(lines)}

\* The positions of the Lines that write cell k.
Writers(marks, k) == {m[1] : m \in {w \in marks : k \in w[2]}}

Largest(S) == CHOOSE m \in S : \A n \in S : n <= m

C6_DrawLinesInOrder ==
    pc = "draw_lines"
        => LET marks == Marks
           IN  \A k \in DOMAIN buf.cells :
                  LET writers == Writers(marks, k)
                  IN  buf.cells[k] = IF writers = {} THEN before.cells[k]
                                     ELSE lines[Largest(writers)].char

\* draw_lines drew 'a' from (-1,1) to (2,1), over row 1, and then 'b' from
\* (2,0) to (2,1), over column 2, on a blank buffer: (2,1) holds 'b'.
C6_Witness ==
    /\ pc = "draw_lines"
    /\ Len(lines) = 2
    /\ lines[1].char = "a" /\ lines[2].char = "b"
    /\ Written(lines[1]) = {<<0, 1>>, <<1, 1>>, <<2, 1>>}
    /\ Written(lines[2]) = {<<2, 0>>, <<2, 1>>}
    /\ before = CharBuffer_new(GridWidth, GridHeight)
    /\ buf.cells[<<0, 1>>] = "a" /\ buf.cells[<<2, 1>>] = "b"
    /\ buf.cells[<<0, 0>>] = Blank

\* C7: drawing a Line that converts to the sentinel pair leaves every cell of
\* the buffer (whose width and height are below 4000000000) unchanged.
C7_SentinelDrawsNothing ==
    (pc = "draw_line" /\ coords = SentinelPair) => buf = before

\* The Line (-1,0)-(-0.5,1), left of the screen, was drawn on a buffer filled
\* with 'b' and converted to the sentinel pair.
C7_Witness ==
    /\ pc = "draw_line"
    /\ P0 = [x |-> U(-1), y |-> U(0)] /\ P1 = [x |-> Fin(-1, -1), y |-> U(1)]
    /\ coords = SentinelPair
    /\ before = fill(CharBuffer_new(GridWidth, GridHeight), "b")
    /\ buf = before

\* C9: a Line whose endpoints convert to the same in-grid point (x, y) makes
\* draw_line write the character to cell (x, y) and to no other cell.
C9_ZeroLength ==
    (/\ pc = "draw_line"
     /\ coords[1] = coords[2]
     /\ InBounds(before, coords[1][1], coords[1][2]))
        => buf = set_char(before, coords[1][1], coords[1][2], line.char)

\* C10: a Line no point of whose segment has both x >= 0 and y >= 0 leaves
\* every cell of the buffer unchanged when drawn.
\* The segment P0 + t (P1 - P0), 0 <= t <= 1, meets x >= 0 and y >= 0 for
\* the t above every lower bound and below every upper bound; a bound is a
\* rational <<numerator, denominator>> with denominator > 0.
TBounds(p, q) ==
    [lower |-> IF q > p THEN {<<-p, q - p>>} ELSE {},
     upper |-> IF q < p THEN {<<p, p - q>>} ELSE {},
     never |-> q = p /\ p < 0]

MeetsQuadrant ==
    LET bx == TBounds(Q4(P0.x), Q4(P1.x))
        by == TBounds(Q4(P0.y), Q4(P1.y))
        lower == bx.lower \cup by.lower \cup {<<0, 1>>}
        upper == bx.upper \cup by.upper \cup {<<1, 1>>}
    IN  /\ ~bx.never /\ ~by.never
        /\ \A lo \in lower, up \in upper : lo[1] * up[2] <= up[1] * lo[2]

C10_OutsideDrawsNothing ==
    (pc = "draw_line" /\ ~MeetsQuadrant) => buf.cells = before.cells

\* C8: for two distinct grid points the rasterizer writes one cell per unit
\* step of the dominant axis: when |dy| <= |dx|, for each column x from the
\* smaller to the larger x, the cell (x, floor(y of the line at x)); when
\* |dy| > |dx| (dx = 0 included), for each row y from the smaller to the larger
\* y, the cell (floor(x of the line at y), y).  Cells outside the grid are
\* skipped, in-grid endpoint cells are written, no usize subtraction
\* underflows, and every other cell is left as it was.
RasterStart == <<ToNat(coords[1][1]), ToNat(coords[1][2])>>

RasterEnd == <<ToNat(coords[2][1]), ToNat(coords[2][2])>>

\* The endpoints by ascending x and, for the rows, by ascending y.
LeftPt == IF RasterStart[1] <= RasterEnd[1] THEN RasterStart ELSE RasterEnd

RightPt == IF RasterStart[1] <= RasterEnd[1] THEN RasterEnd ELSE RasterStart

LowPt == IF RasterStart[2] <= RasterEnd[2] THEN RasterStart ELSE RasterEnd

HighPt == IF RasterStart[2] <= RasterEnd[2] THEN RasterEnd ELSE RasterStart

Targets ==
    LET dx == RightPt[1] - LeftPt[1]
        dy == RightPt[2] - LeftPt[2]
        rows == HighPt[2] - LowPt[2]
    IN  IF Abs(dy) <= dx
        THEN {<<x, (LeftPt[2] * dx + dy * (x - LeftPt[1])) \div dx>> :
                 x \in LeftPt[1] .. RightPt[1]}
        ELSE {<<(LowPt[1] * rows + (HighPt[1] - LowPt[1]) * (y - LowPt[2])) \div rows, y>> :
                 y \in LowPt[2] .. HighPt[2]}

C8_OneCellPerStep ==
    (pc = "raster" /\ coords[1] # coords[2])
        => /\ ~buf.panic
           /\ \A k \in DOMAIN buf.cells :
                 buf.cells[k] = IF k \in Targets THEN char ELSE before.cells[k]
           /\ \A p \in {RasterStart, RasterEnd} :
                 p \in DOMAIN buf.cells => buf.cells[p] = char

\* C11: when the conversion does not return the sentinel, each of the two
\* grid points it returns is the nearest-integer rounding of a point of the
\* input segment that has x >= 0 and y >= 0; so a larger-x endpoint with
\* y < 0 is moved to the crossing of the x-axis, not only given y = 0.
\* A coordinate v >= 0 rounds to g exactly when max(0, g - 1/2) <= v < g + 1/2.
\* The bounds this puts on the t of P0 + t (P1 - P0), for one axis, in units
\* of 1/4: <<numerator, denominator, strict>> with denominator > 0.
RoundWindow(p, q, g) ==
    LET a == IF g = 0 THEN 0 ELSE 4 * g - 2
        b == 4 * g + 2
    IN  [lower |-> IF q > p THEN {<<a - p, q - p, FALSE>>}
                   ELSE IF q < p THEN {<<p - b, p - q, TRUE>>} ELSE {},
         upper |-> IF q > p THEN {<<b - p, q - p, TRUE>>}
                   ELSE IF q < p THEN {<<p - a, p - q, FALSE>>} ELSE {},
         never |-> q = p /\ ~(a <= p /\ p < b)]

\* Some t is above the lower bound lo and below the upper bound up.
Compatible(lo, up) ==
    \/ lo[1] * up[2] < up[1] * lo[2]
    \/ lo[1] * up[2] = up[1] * lo[2] /\ ~lo[3] /\ ~up[3]

\* The grid point g is the rounding of a point of the segment in x, y >= 0.
RoundsFromSegment(g) ==
    LET wx == RoundWindow(Q4(P0.x), Q4(P1.x), ToNat(g[1]))
        wy == RoundWindow(Q4(P0.y), Q4(P1.y), ToNat(g[2]))
        lower == wx.lower \cup wy.lower \cup {<<0, 1, FALSE>>}
        upper == wx.upper \cup wy.upper \cup {<<1, 1, FALSE>>}
    IN  /\ ~wx.never /\ ~wy.never
        /\ \A lo \in lower, up \in upper : Compatible(lo, up)

C11_OnSegment ==
    (pc = "into" /\ coords # SentinelPair)
        => RoundsFromSegment(coords[1]) /\ RoundsFromSegment(coords[2])

=============================================================================
